---- MODULE Spec2Model ----
(***************************************************************************)
(* The row-classification pipelines of the repository.  Resumable and       *)
(* retrying: CAMEO-3.py (event extraction + summary, one record per event), *)
(* CAMEOcode_Hurriyet_1.py (the same plus topic extraction and a final      *)
(* topic clustering) and Societal_sentiment.py (sentiment + summary, one    *)
(* record per row).  Neither resumable nor retrying: Filter-3.1.py (one     *)
(* relevance check per row, the whole table written at the end) and        *)
(* Filter_Hurriyet_first.py / _second.py (a keyword filter, then a          *)
(* relevance check for the rows that pass it; three tables written at the   *)
(* end).                                                                    *)
(* A behaviour is a sequence of runs of one script over one input table    *)
(* and one output file: a run may be killed at any step and started again. *)
(***************************************************************************)
EXTENDS Naturals, Sequences, FiniteSets, TLC

\* ------------------------------------------------------------------ bounds
MaxRows == 2
MaxEvents == 2
MaxRuns == 2
\* rows of the input table of the three-task script (CAMEOcode_Hurriyet_1)
MaxRowsTopics == 1
\* words in a Content cell, and rows of the input table, of the two-stage filter
MaxWords == 2
MaxFilterRows == 2

\* ------------------------------------------------------- program constants
MAX_RETRIES == 4
RETRY_BACKOFF_SECONDS == 5

\* Scripts with a retry wrapper and a resumable sink, and scripts without.
Scripts == {"CAMEO3", "Sentiment", "Hurriyet1"}
FilterScripts == {"Filter31"}
CameoScripts == {"CAMEO3", "Hurriyet1"}

\* Exception texts raised by client.chat.completions.create.
Errors == {"APIError"}

\* ------------------------------------------------------------- input table
\* A row is its NewsID cell as it stands in the input file, and whether its
\* Content cell is blank after strip().  "007" reads as a number; "x " is the
\* text x with a trailing space.
InputRows ==
    {[id |-> "007", blank |-> FALSE], [id |-> "x", blank |-> FALSE],
     [id |-> "x ", blank |-> FALSE], [id |-> "x", blank |-> TRUE]}
Tables(scr) ==
    UNION {[1..n -> InputRows] :
             n \in 0..(IF scr = "Hurriyet1" THEN MaxRowsTopics ELSE MaxRows)}

VARIABLES
    script,         \* which script this behaviour runs
    input,          \* DATA_CSV_PATH: the rows of the input table
    OUTPUT_CSV,     \* OUTPUT_CSV_PATH: [exists, lines] (two-stage filter: its 3 files)
    TOPICS_REPORT,  \* TOPICS_REPORT_PATH: the text of the report, or "absent"
    results,        \* Filter-3.1 main's results list (two-stage filter: debug_records)
    pc,             \* position of the run in main()
    runs,           \* number of runs started so far
    idx,            \* loop index of df_input.iterrows() (1-based)
    processed_ids,  \* main's processed_ids set
    task,           \* index in Tasks(script) of the classifier call in progress
    locals,         \* main's cameo_data / sent_data / summary for the row
    written,        \* records of the current row appended so far
    attempt,        \* call_with_retries: attempt of the call in progress
    sleeps,         \* call_with_retries: time.sleep durations of this call
    excs,           \* call_with_retries: exceptions fn() raised in this call
    ret,            \* what the last classifier call's retry wrapper did
    hist            \* history of the runs (observation only)

vars == <<script, input, OUTPUT_CSV, TOPICS_REPORT, results, pc, runs, idx, processed_ids, task,
          locals, written, attempt, sleeps, excs, ret, hist>>

\* ------------------------------------------------------------ pandas reads
\* pd.read_csv infers one dtype per column: an empty field is NaN; a column
\* whose other fields all parse as numbers is int64 (float64 with a NaN in
\* it); any other column keeps its texts.  astype(str) / str() then print the
\* values: 7, 7.0, nan, or the text itself.
NumericText == {"7", "007"}
IsNA(c) == c = ""

read_csv_column(cells) ==
    LET n == Len(cells)
        nonNA == {cells[i] : i \in {j \in 1..n : ~IsNA(cells[j])}}
        hasNA == \E i \in 1..n : IsNA(cells[i])
        numeric == nonNA \subseteq NumericText
    IN  [i \in 1..n |->
            IF IsNA(cells[i]) THEN "nan"
            ELSE IF numeric THEN (IF hasNA THEN "7.0" ELSE "7")
            ELSE cells[i]]

strip(s) == IF s = "x " THEN "x" ELSE s

\* news_id = str(row.get(NEWS_ID_COLUMN, "")).strip()
news_id(i) == strip(read_csv_column([j \in 1..Len(input) |-> input[j].id])[i])

\* content = str(row.get(CONTENT_COLUMN, "")).strip(), as "is it empty"
content_empty(i) == input[i].blank

\* --------------------------------------------------------------- CSV sink
Header == [kind |-> "header"]

IsRecord(l) == l.kind = "rec"

Records(lines) == SelectSeq(lines, IsRecord)

ensure_output_csv(f) ==
    IF ~f.exists THEN [exists |-> TRUE, lines |-> <<Header>>] ELSE f

append_record_header(f, record) ==
    [exists |-> TRUE, lines |-> f.lines \o <<Header, record>>]

\* to_csv(mode="a", header=not OUTPUT_CSV_PATH.exists())
append_record(f, record) ==
    [exists |-> TRUE,
     lines |-> f.lines \o (IF ~f.exists THEN <<Header>> ELSE <<>>) \o <<record>>]

\* to_csv(mode="a", header=False)
append_plain(f, record) ==
    [exists |-> TRUE, lines |-> f.lines \o <<record>>]

\* set(df_existing["NewsID"].astype(str)) over the file's current contents
load_processed_ids(f) ==
    LET recs == Records(f.lines)
        col == read_csv_column([i \in 1..Len(recs) |-> recs[i].NewsID])
    IN  {col[i] : i \in 1..Len(recs)}

\* ------------------------------------------------------- remote API replies
\* What response.choices[0].message.content can be, per task.
\* An events list is given by the event_order of each event, in reply order:
\* ascending, descending, or all equal.  cameo_code tells the events of one
\* reply apart: the k-th event of the reply carries k.
EventLists ==
    UNION {{[k \in 1..n |-> [event_order |-> k, cameo_code |-> k]],
            [k \in 1..n |-> [event_order |-> n + 1 - k, cameo_code |-> k]],
            [k \in 1..n |-> [event_order |-> 1, cameo_code |-> k]]}
           : n \in 0..MaxEvents}

Contents(t) ==
    CASE t = "events" ->
            {[kind |-> "json", events |-> evs] : evs \in EventLists}
            \cup {[kind |-> "garbage", events |-> <<>>],
                  [kind |-> "badshape", events |-> <<>>]}
      [] t = "summary" -> {[kind |-> "text"]}
      [] t = "sentiment" ->
            {[kind |-> "json", score |-> s] : s \in {"num", "text", "null"}}
            \cup {[kind |-> k, score |-> "none"] : k \in {"empty", "nojson", "broken"}}
      [] t = "topics" -> {[kind |-> k] : k \in {"json", "garbage", "badshape"}}
      [] t = "relevance" -> {[kind |-> k] : k \in {"json", "garbage"}}

\* The classifier calls main makes for a row, in order.
Tasks(scr) ==
    CASE scr = "CAMEO3" -> <<"events", "summary">>
      [] scr = "Hurriyet1" -> <<"events", "summary", "topics">>
      [] scr = "Sentiment" -> <<"sentiment", "summary">>
      [] scr = "Filter31" -> <<"relevance">>

TaskNames == {"events", "summary", "sentiment", "topics", "relevance"}

\* ----------------------------------------------------------- retry wrapper
LastAttempt_first(att) == att = 1

LastAttempt_late(att) == att = MAX_RETRIES + 1

\* call_with_retries: `if attempt == max_attempts: raise`
LastAttempt(att) == att = MAX_RETRIES

Wait_flat(att) == RETRY_BACKOFF_SECONDS

\* wait = RETRY_BACKOFF_SECONDS * attempt
Wait(att) == RETRY_BACKOFF_SECONDS * att

Reraised_first(history) == history[1]

\* the bare `raise` re-raises the exception of the attempt being handled
Reraised(history) == history[Len(history)]

NoRet == [state |-> "none"]

\* An outcome of run_chat_completion / run_openai_completion as the client
\* function sees it: the wrapper raised exc, or returned content.
Raised(exc) == [raised |-> TRUE, exc |-> exc.text, content |-> [kind |-> "none"]]
Returned(c) == [raised |-> FALSE, exc |-> "", content |-> c]

\* --------------------------------------------------------- classifier clients
TryBody_call_outside(scr, t) ==
    CASE t = "events" -> {"loads"}
      [] t = "summary" -> {}
      [] t = "sentiment" -> {"parse", "float"}
      [] t = "topics" -> {"loads"}
      [] t = "relevance" -> {"loads"}

\* The statements each client function runs inside its try block.
TryBody(scr, t) ==
    CASE t = "events" -> {"call", "loads"}
      [] t = "summary" -> {"call"}
      [] t = "sentiment" -> {"call", "parse", "float"}
      [] t = "topics" -> {"call", "loads"}
      [] t = "relevance" -> {"call", "loads"}

\* The statement of the client function that raises on outcome o ("none" if
\* none does), and the text of what it raises.
FailPoint(scr, t, o) ==
    IF o.raised THEN "call"
    ELSE CASE t = "events" ->
                IF o.content.kind = "garbage" THEN "loads" ELSE "none"
           [] t = "summary" -> "none"
           [] t = "sentiment" ->
                IF o.content.kind = "broken" THEN "parse"
                ELSE IF o.content.kind = "json" /\ o.content.score = "null"
                     THEN "float"    \* float(None): TypeError, not ValueError
                     ELSE "none"
           [] t \in {"topics", "relevance"} ->
                IF o.content.kind = "garbage" THEN "loads" ELSE "none"

ExcText(scr, t, o) ==
    CASE FailPoint(scr, t, o) = "call" -> o.exc
      [] FailPoint(scr, t, o) = "loads" -> "JSONDecodeError"
      [] FailPoint(scr, t, o) = "parse" -> "JSONDecodeError"
      [] FailPoint(scr, t, o) = "float" -> "TypeError"
      [] OTHER -> ""

\* The value of the except branch of each client function.
Sentinel(scr, t, text) ==
    CASE t = "events" -> [events |-> <<>>, error |-> text, badshape |-> FALSE]
      [] t = "summary" ->
            IF scr \in CameoScripts THEN [text |-> "Error: ", error |-> text]
            ELSE [text |-> "", error |-> ""]
      [] t = "sentiment" ->
            [score |-> "0.0", label |-> "Error", description |-> text]
      [] t = "topics" -> [topics |-> "Error: ", error |-> text, badshape |-> FALSE]
      [] t = "relevance" ->
            [is_relevant |-> FALSE, reason |-> "LLM Error: ", error |-> text]

\* The value each client function returns when nothing raises.
Parsed(scr, t, o) ==
    CASE t = "events" ->
            [events |-> o.content.events, error |-> "",
             badshape |-> o.content.kind = "badshape"]
      [] t = "summary" ->
            IF o.content.kind = "text" THEN [text |-> "summary", error |-> ""]
            ELSE [text |-> "", error |-> ""]
      [] t = "sentiment" ->
            CASE o.content.kind = "empty" ->
                    [score |-> "0.0", label |-> "Error", description |-> ""]
              [] o.content.kind = "nojson" ->
                    [score |-> "0.0", label |-> "None Detected", description |-> ""]
              [] OTHER ->
                    [score |-> IF o.content.score = "num" THEN "num" ELSE "0.0",
                     label |-> "label", description |-> "description"]
      [] t = "topics" ->
            [topics |-> "topics", error |-> "",
             badshape |-> o.content.kind = "badshape"]
      [] t = "relevance" ->
            [is_relevant |-> TRUE, reason |-> "reason", error |-> ""]

\* get_cameo_events_with_llm / get_summary_with_llm /
\* get_societal_sentiment_with_llm / get_topics_for_single_doc_llm /
\* check_simple_relevance on outcome o of the remote call.
Client(scr, t, o) ==
    LET fp == FailPoint(scr, t, o)
    IN  IF fp = "none" THEN [escaped |-> FALSE, value |-> Parsed(scr, t, o)]
        ELSE IF fp \in TryBody(scr, t)
             THEN [escaped |-> FALSE, value |-> Sentinel(scr, t, ExcText(scr, t, o))]
             ELSE [escaped |-> TRUE, value |-> Sentinel(scr, t, ExcText(scr, t, o))]

Null == [none |-> TRUE]
NoLocals == [t \in TaskNames |-> Null]

\* -------------------------------------------------------------------- state
NoHist ==
    [torn |-> {},           \* rows a kill left with only part of their records
     fullyWritten |-> {},   \* rows all of whose records some run appended
     started |-> {},        \* rows an earlier run took in flight
     inflight |-> {},       \* rows this run took in flight
     crashRow |-> 0,        \* row in flight when the previous run was killed
     prevEnd |-> "none",    \* how the previous run ended
     startLines |-> <<>>,   \* the output table when this run started
     allFailed |-> TRUE,    \* no remote attempt of this run has succeeded
     rowErr |-> {},         \* tasks of the row in flight whose remote call raised
     rowStart |-> 0,        \* length of the output table when the row was taken
     env |-> "ok",          \* the environment the last start found
     clusterCalls |-> 0,    \* times this run began the clustering call
     clusterSent |-> 0]     \* clustering requests this run sent to the service

\* Before the first run: no output file, no report, no process.
Start ==
    /\ input \in Tables(script)
    /\ OUTPUT_CSV = [exists |-> FALSE, lines |-> <<>>]
    /\ TOPICS_REPORT = "absent"
    /\ results = <<>>
    /\ pc = "idle"
    /\ runs = 0
    /\ idx = 0
    /\ processed_ids = {}
    /\ task = 0
    /\ locals = NoLocals
    /\ written = 0
    /\ attempt = 0
    /\ sleeps = <<>>
    /\ excs = <<>>
    /\ ret = NoRet
    /\ hist = NoHist

Init == script \in Scripts /\ Start

InitAll == script \in Scripts \cup FilterScripts /\ Start

Stopped == {"idle", "done", "crashed", "aborted", "escaped", "refused"}
InFlight == {"call", "returned", "write", "mark"}
Running == InFlight \cup {"loop"}

\* What a start can find: the credential and the input file in place, the
\* credential missing from the process environment, or the input file missing.
Environments == {"ok", "nocredential", "noinput"}

\* `if not OPENAI_API_KEY: raise ValueError` at module level, and
\* `if not DATA_CSV_PATH.exists(): raise FileNotFoundError` first in main.
Refused(env) == env # "ok"

StartOutput_ensure_first(env, f) ==
    IF env = "nocredential" THEN f ELSE ensure_output_csv(f)

\* The output file as the start of a run leaves it: ensure_output_csv() comes
\* after both checks.
StartOutput(env, f) == IF Refused(env) THEN f ELSE ensure_output_csv(f)

\* The script from its first line to the top of the row loop of main(), or to
\* the exception that ends it before.
MainStart ==
    /\ script \in Scripts
    /\ pc \in Stopped
    /\ runs < MaxRuns
    /\ \E env \in Environments :
         LET f == StartOutput(env, OUTPUT_CSV)
         IN  /\ OUTPUT_CSV' = f
             /\ IF Refused(env)
                THEN /\ pc' = "refused"
                     /\ processed_ids' = {}
                     /\ idx' = 0
                     /\ hist' = [hist EXCEPT !.started = hist.started \cup hist.inflight,
                                             !.inflight = {},
                                             !.startLines = <<>>,
                                             !.rowErr = {},
                                             !.rowStart = 0,
                                             !.env = env,
                                             !.clusterCalls = 0,
                                             !.clusterSent = 0]
                ELSE /\ pc' = "loop"
                     /\ processed_ids' = load_processed_ids(f)
                     /\ idx' = 1
                     /\ hist' = [hist EXCEPT !.started = hist.started \cup hist.inflight,
                                             !.inflight = {},
                                             !.startLines = OUTPUT_CSV.lines,
                                             !.allFailed = TRUE,
                                             !.rowErr = {},
                                             !.rowStart = 0,
                                             !.env = env,
                                             !.clusterCalls = 0,
                                             !.clusterSent = 0]
    /\ runs' = runs + 1
    /\ task' = 0
    /\ locals' = NoLocals
    /\ written' = 0
    /\ attempt' = 0
    /\ sleeps' = <<>>
    /\ excs' = <<>>
    /\ ret' = NoRet
    /\ UNCHANGED <<script, input, TOPICS_REPORT, results>>

SkipRow_no_membership(scr, i) ==
    IF scr \in CameoScripts
    THEN content_empty(i)
    ELSE news_id(i) = "" \/ content_empty(i)

SkipRow_ignores_content(scr, i) ==
    IF scr \in CameoScripts
    THEN news_id(i) \in processed_ids
    ELSE news_id(i) = "" \/ news_id(i) \in processed_ids

\* The `continue` tests at the top of the loop body.
SkipRow(scr, i) ==
    IF scr \in CameoScripts
    THEN content_empty(i) \/ news_id(i) \in processed_ids
    ELSE news_id(i) = "" \/ content_empty(i) \/ news_id(i) \in processed_ids

RowSkipped ==
    /\ script \in Scripts
    /\ pc = "loop"
    /\ idx <= Len(input)
    /\ SkipRow(script, idx)
    /\ idx' = idx + 1
    /\ UNCHANGED <<script, input, TOPICS_REPORT, results, OUTPUT_CSV,
                   pc, runs, processed_ids, task,
                   locals, written, attempt, sleeps, excs, ret, hist>>

RowBegins_dispatch_async ==
    /\ script \in Scripts
    /\ pc = "loop"
    /\ idx <= Len(input)
    /\ ~SkipRow(script, idx)
    /\ pc' = "loop"
    /\ idx' = idx + 1
    /\ task' = 1
    /\ attempt' = 1
    /\ hist' = [hist EXCEPT !.inflight = hist.inflight \cup {idx}]
    /\ UNCHANGED <<script, input, TOPICS_REPORT, results, OUTPUT_CSV,
                   runs, written, sleeps, excs, ret, locals, processed_ids>>

RowBegins_marks_early ==
    /\ script \in Scripts
    /\ pc = "loop"
    /\ idx <= Len(input)
    /\ ~SkipRow(script, idx)
    /\ pc' = "call"
    /\ task' = 1
    /\ attempt' = 1
    /\ sleeps' = <<>>
    /\ excs' = <<>>
    /\ ret' = NoRet
    /\ locals' = NoLocals
    /\ processed_ids' = processed_ids \cup {news_id(idx)}
    /\ hist' = [hist EXCEPT !.inflight = hist.inflight \cup {idx},
                            !.rowErr = {},
                            !.rowStart = Len(OUTPUT_CSV.lines)]
    /\ UNCHANGED <<script, input, TOPICS_REPORT, results, OUTPUT_CSV,
                   runs, idx, written>>

\* The row is taken: its first classifier call issues attempt 1.
RowBegins ==
    /\ script \in Scripts
    /\ pc = "loop"
    /\ idx <= Len(input)
    /\ ~SkipRow(script, idx)
    /\ pc' = "call"
    /\ task' = 1
    /\ attempt' = 1
    /\ sleeps' = <<>>
    /\ excs' = <<>>
    /\ ret' = NoRet
    /\ locals' = NoLocals
    /\ hist' = [hist EXCEPT !.inflight = hist.inflight \cup {idx},
                            !.rowErr = {},
                            !.rowStart = Len(OUTPUT_CSV.lines)]
    /\ UNCHANGED <<script, input, TOPICS_REPORT, results, OUTPUT_CSV,
                   runs, idx, processed_ids, written>>

\* The client function of the task in progress ends on outcome o, after
\* `calls` invocations of api_call.
ClientEnds(o, r) ==
    LET t == Tasks(script)[task]
        c == Client(script, t, o)
    IN  /\ ret' = r
        /\ IF c.escaped
           THEN /\ pc' = "escaped"
                /\ locals' = NoLocals
           ELSE /\ pc' = "returned"
                /\ locals' = [locals EXCEPT ![t] = c.value]

\* fn() raises and attempts remain: sleep, then the next attempt.
ApiRaisesRetry ==
    /\ script \in Scripts
    /\ pc = "call"
    /\ ~LastAttempt(attempt)
    /\ \E e \in Errors :
         excs' = Append(excs, [text |-> e, at |-> attempt])
    /\ sleeps' = Append(sleeps, Wait(attempt))
    /\ attempt' = attempt + 1
    /\ UNCHANGED <<script, input, TOPICS_REPORT, results, OUTPUT_CSV,
                   pc, runs, idx, processed_ids,
                   task, locals, written, ret, hist>>

\* fn() raises on the last attempt: the wrapper re-raises to the client.
ApiRaisesFinal ==
    /\ script \in Scripts
    /\ pc = "call"
    /\ LastAttempt(attempt)
    /\ \E e \in Errors :
         LET h == Append(excs, [text |-> e, at |-> attempt])
         IN  /\ excs' = h
             /\ ClientEnds(Raised(Reraised(h)),
                           [state |-> "raised", exc |-> Reraised(h),
                            calls |-> attempt])
    /\ hist' = [hist EXCEPT !.rowErr = hist.rowErr \cup {Tasks(script)[task]}]
    /\ UNCHANGED <<script, input, TOPICS_REPORT, results, OUTPUT_CSV,
                   runs, idx, processed_ids, task,
                   written, attempt, sleeps>>

\* fn() returns the reply's content: the wrapper returns it to the client.
ApiReturns ==
    /\ script \in Scripts
    /\ pc = "call"
    /\ \E c \in Contents(Tasks(script)[task]) :
         ClientEnds(Returned(c),
                    [state |-> "returned", payload |-> c, calls |-> attempt])
    /\ hist' = [hist EXCEPT !.allFailed = FALSE]
    /\ UNCHANGED <<script, input, TOPICS_REPORT, results, OUTPUT_CSV,
                   runs, idx, processed_ids, task,
                   written, attempt, sleeps, excs>>

NextTask_stop_on_failure ==
    /\ script \in Scripts
    /\ pc = "returned"
    /\ task < Len(Tasks(script))
    /\ IF ret.state = "raised"
       THEN /\ pc' = "write"
            /\ task' = 0
            /\ attempt' = 0
       ELSE /\ pc' = "call"
            /\ task' = task + 1
            /\ attempt' = 1
    /\ sleeps' = <<>>
    /\ excs' = <<>>
    /\ ret' = NoRet
    /\ UNCHANGED <<script, input, TOPICS_REPORT, results, OUTPUT_CSV,
                   runs, idx, processed_ids, locals,
                   written, hist>>

NextTask_appends_early ==
    /\ script \in Scripts
    /\ pc = "returned"
    /\ task < Len(Tasks(script))
    /\ task' = task + 1
    /\ pc' = "call"
    /\ attempt' = 1
    /\ sleeps' = <<>>
    /\ excs' = <<>>
    /\ ret' = NoRet
    /\ OUTPUT_CSV' = append_plain(OUTPUT_CSV,
                                  [kind |-> "rec", NewsID |-> news_id(idx), meta |-> idx])
    /\ UNCHANGED <<script, input, TOPICS_REPORT, results,
                   runs, idx, processed_ids, locals,
                   written, hist>>

\* main calls the row's next client function.
NextTask ==
    /\ script \in Scripts
    /\ pc = "returned"
    /\ task < Len(Tasks(script))
    /\ task' = task + 1
    /\ pc' = "call"
    /\ attempt' = 1
    /\ sleeps' = <<>>
    /\ excs' = <<>>
    /\ ret' = NoRet
    /\ UNCHANGED <<script, input, TOPICS_REPORT, results, OUTPUT_CSV,
                   runs, idx, processed_ids, locals,
                   written, hist>>

\* All client functions of the row have returned: main shapes the records.
TasksDone ==
    /\ script \in Scripts
    /\ pc = "returned"
    /\ task = Len(Tasks(script))
    /\ pc' = "write"
    /\ task' = 0
    /\ attempt' = 0
    /\ sleeps' = <<>>
    /\ excs' = <<>>
    /\ ret' = NoRet
    /\ written' = 0
    /\ UNCHANGED <<script, input, TOPICS_REPORT, results, OUTPUT_CSV,
                   runs, idx, processed_ids, locals,
                   hist>>

\* ------------------------------------------------------------ record shaping
\* Source / Date / Title are the row's own cells, passed through: meta names
\* the input row they come from.
\* document_topics is Null where the script has no such column.
BlankRecord(i, loc) ==
    [kind |-> "rec", NewsID |-> news_id(i), meta |-> i,
     summary |-> loc["summary"], blank |-> TRUE, event_order |-> 0, cameo_code |-> 0,
     document_topics |-> loc["topics"]]

EventRecord(i, loc, ev) ==
    [kind |-> "rec", NewsID |-> news_id(i), meta |-> i,
     summary |-> loc["summary"], blank |-> FALSE,
     event_order |-> ev.event_order, cameo_code |-> ev.cameo_code,
     document_topics |-> loc["topics"]]

SentimentRecord(i, loc) ==
    [kind |-> "rec", NewsID |-> news_id(i), meta |-> i,
     summary |-> loc["summary"],
     score |-> loc["sentiment"].score, label |-> loc["sentiment"].label,
     description |-> loc["sentiment"].description]

\* events = cameo_data.get("events", [])
EventsOf(loc) == loc["events"].events

RowRecords_first(scr, i, loc) ==
    IF scr \in CameoScripts
    THEN IF EventsOf(loc) = <<>>
         THEN <<BlankRecord(i, loc)>>
         ELSE <<EventRecord(i, loc, EventsOf(loc)[1])>>
    ELSE <<SentimentRecord(i, loc)>>

RowRecords_sorted(scr, i, loc) ==
    IF scr \in CameoScripts
    THEN IF EventsOf(loc) = <<>>
         THEN <<BlankRecord(i, loc)>>
         ELSE LET evs == EventsOf(loc)
                  rank(j) == 1 + Cardinality({m \in 1..Len(evs) :
                                 \/ evs[m].event_order < evs[j].event_order
                                 \/ evs[m].event_order = evs[j].event_order /\ m < j})
              IN  [k \in 1..Len(evs) |->
                     EventRecord(i, loc, evs[CHOOSE j \in 1..Len(evs) : rank(j) = k])]
    ELSE <<SentimentRecord(i, loc)>>

\* The records main appends for row i, in the order it appends them.
RowRecords(scr, i, loc) ==
    IF scr \in CameoScripts
    THEN IF EventsOf(loc) = <<>>
         THEN <<BlankRecord(i, loc)>>
         ELSE [k \in 1..Len(EventsOf(loc)) |-> EventRecord(i, loc, EventsOf(loc)[k])]
    ELSE <<SentimentRecord(i, loc)>>

\* The append each script uses for one record.
Append_to_csv(scr, f, record) ==
    IF scr \in CameoScripts THEN append_record(f, record) ELSE append_plain(f, record)

\* The reply parsed as JSON but its events are not objects (ev.get raises) or
\* its topics are not texts (", ".join raises): in main, outside every try.
MainRaisesOn(scr, loc) ==
    \/ scr \in CameoScripts /\ loc["events"].badshape
    \/ scr = "Hurriyet1" /\ loc["topics"].badshape

\* One to_csv append of the row's next record.
AppendNext ==
    /\ pc = "write"
    /\ ~MainRaisesOn(script, locals)
    /\ LET recs == RowRecords(script, idx, locals)
           last == written + 1 = Len(recs)
       IN  /\ OUTPUT_CSV' = Append_to_csv(script, OUTPUT_CSV, recs[written + 1])
           /\ written' = written + 1
           /\ pc' = IF last THEN "mark" ELSE "write"
           /\ hist' = IF last
                      THEN [hist EXCEPT !.fullyWritten = hist.fullyWritten \cup {idx},
                                        !.torn = hist.torn \ {idx}]
                      ELSE hist
    /\ UNCHANGED <<script, input, TOPICS_REPORT, results,
                   runs, idx, processed_ids, task, locals,
                   attempt, sleeps, excs, ret>>

MarkDone_skip_add ==
    /\ pc = "mark"
    /\ idx' = idx + 1
    /\ pc' = "loop"
    /\ locals' = NoLocals
    /\ written' = 0
    /\ UNCHANGED <<script, input, TOPICS_REPORT, results, OUTPUT_CSV,
                   runs, task, attempt, sleeps,
                   excs, ret, hist, processed_ids>>

\* processed_ids.add(news_id), and on to the next row.
MarkDone ==
    /\ pc = "mark"
    /\ processed_ids' = processed_ids \cup {news_id(idx)}
    /\ idx' = idx + 1
    /\ pc' = "loop"
    /\ locals' = NoLocals
    /\ written' = 0
    /\ UNCHANGED <<script, input, TOPICS_REPORT, results, OUTPUT_CSV,
                   runs, task, attempt, sleeps,
                   excs, ret, hist>>

\* cluster_topics_with_llm: the topics of the document_topics_json column of
\* the file that are not error texts (here, the records that carry them).
flat(f) ==
    {k \in 1..Len(f.lines) :
        f.lines[k].kind = "rec" /\ f.lines[k].document_topics.error = ""}

ClusterNeeded_always(scr, f) == scr = "Hurriyet1"

\* Whether the end of main makes the clustering call: only Hurriyet_1 has
\* one, and `if not flat: return "No topics available."` comes before it.
ClusterNeeded(scr, f) == scr = "Hurriyet1" /\ flat(f) # {}

\* The loop is exhausted and no clustering call is due: Hurriyet_1 writes the
\* fixed report; the completion message.
Finish ==
    /\ script \in Scripts
    /\ pc = "loop"
    /\ idx > Len(input)
    /\ ~ClusterNeeded(script, OUTPUT_CSV)
    /\ IF script = "Hurriyet1"
       THEN TOPICS_REPORT' = "No topics available."
       ELSE UNCHANGED TOPICS_REPORT
    /\ pc' = "done"
    /\ hist' = [hist EXCEPT !.crashRow = 0, !.prevEnd = "done"]
    /\ UNCHANGED <<script, input, results, OUTPUT_CSV, runs, idx, processed_ids,
                   task, locals, written, attempt, sleeps, excs, ret>>

\* The loop is exhausted and there are topics: cluster_topics_with_llm sends
\* its prompt through run_chat_completion, first attempt.
ClusterBegins ==
    /\ script \in Scripts
    /\ pc = "loop"
    /\ idx > Len(input)
    /\ ClusterNeeded(script, OUTPUT_CSV)
    /\ pc' = "cluster"
    /\ attempt' = 1
    /\ sleeps' = <<>>
    /\ excs' = <<>>
    /\ hist' = [hist EXCEPT !.clusterCalls = hist.clusterCalls + 1,
                            !.clusterSent = hist.clusterSent + 1]
    /\ UNCHANGED <<script, input, TOPICS_REPORT, results, OUTPUT_CSV, runs, idx,
                   processed_ids, task, locals, written, ret>>

\* The clustering request raises and attempts remain: sleep, then again.
ClusterRaisesRetry ==
    /\ script \in Scripts
    /\ pc = "cluster"
    /\ ~LastAttempt(attempt)
    /\ \E e \in Errors :
         excs' = Append(excs, [text |-> e, at |-> attempt])
    /\ sleeps' = Append(sleeps, Wait(attempt))
    /\ attempt' = attempt + 1
    /\ hist' = [hist EXCEPT !.clusterSent = hist.clusterSent + 1]
    /\ UNCHANGED <<script, input, TOPICS_REPORT, results, OUTPUT_CSV, pc, runs, idx,
                   processed_ids, task, locals, written, ret>>

\* The clustering request raises on the last attempt: the except clause of
\* cluster_topics_with_llm returns the error text, which becomes the report.
ClusterRaisesFinal ==
    /\ script \in Scripts
    /\ pc = "cluster"
    /\ LastAttempt(attempt)
    /\ \E e \in Errors : TOPICS_REPORT' = "Error: "
    /\ pc' = "done"
    /\ attempt' = 0
    /\ sleeps' = <<>>
    /\ excs' = <<>>
    /\ hist' = [hist EXCEPT !.crashRow = 0, !.prevEnd = "done"]
    /\ UNCHANGED <<script, input, results, OUTPUT_CSV, runs, idx, processed_ids,
                   task, locals, written, ret>>

\* The clustering request returns: the reply is the report.
ClusterReturns ==
    /\ script \in Scripts
    /\ pc = "cluster"
    /\ TOPICS_REPORT' = "clusters"
    /\ pc' = "done"
    /\ attempt' = 0
    /\ sleeps' = <<>>
    /\ excs' = <<>>
    /\ hist' = [hist EXCEPT !.crashRow = 0, !.prevEnd = "done",
                            !.allFailed = FALSE]
    /\ UNCHANGED <<script, input, results, OUTPUT_CSV, runs, idx, processed_ids,
                   task, locals, written, ret>>

\* The process ends with its memory lost; only the files remain.
Ends(how) ==
    /\ pc' = how
    /\ results' = <<>>
    /\ idx' = 0
    /\ processed_ids' = {}
    /\ task' = 0
    /\ locals' = NoLocals
    /\ written' = 0
    /\ attempt' = 0
    /\ sleeps' = <<>>
    /\ excs' = <<>>
    /\ ret' = NoRet
    /\ hist' = [hist EXCEPT
                  !.crashRow = IF pc \in InFlight THEN idx ELSE 0,
                  !.prevEnd = how,
                  !.torn = IF pc = "write" /\ written > 0
                           THEN hist.torn \cup {idx} ELSE hist.torn,
                  !.started = hist.started \cup hist.inflight,
                  !.inflight = {},
                  !.startLines = <<>>,
                  !.rowErr = {},
                  !.rowStart = 0]
    /\ UNCHANGED <<script, input, TOPICS_REPORT, OUTPUT_CSV, runs>>

\* An uncaught exception in main ends the run.
MainRaises ==
    /\ pc = "write"
    /\ MainRaisesOn(script, locals)
    /\ Ends("aborted")

\* The process is killed (there is no other way to stop a run).
Crash ==
    /\ pc \in Running \cup {"cluster"}
    /\ Ends("crashed")

Next ==
    \/ MainStart
    \/ RowSkipped
    \/ RowBegins
    \/ ApiRaisesRetry
    \/ ApiRaisesFinal
    \/ ApiReturns
    \/ NextTask
    \/ TasksDone
    \/ AppendNext
    \/ MarkDone
    \/ Finish
    \/ ClusterBegins
    \/ ClusterRaisesRetry
    \/ ClusterRaisesFinal
    \/ ClusterReturns
    \/ MainRaises
    \/ Crash

Spec == Init /\ [][Next]_vars

\* ------------------------------------------------------------- Filter-3.1
\* Title_ID as the record carries it: row.get('Title_ID', index).
title_id(i) == read_csv_column([j \in 1..Len(input) |-> input[j].id])[i]

RelevanceRecord(i, loc) ==
    [kind |-> "rec", Title_ID |-> title_id(i), meta |-> i,
     is_relevant |-> loc["relevance"].is_relevant,
     reason |-> loc["relevance"]]

to_csv_append(rs) ==
    [exists |-> TRUE, lines |-> OUTPUT_CSV.lines \o rs]

\* results_df.to_csv(OUTPUT_CSV_PATH, index=False): the file is replaced.  A
\* frame built from an empty list has no columns, hence no header.
to_csv(rs) ==
    [exists |-> TRUE, lines |-> IF rs = <<>> THEN <<>> ELSE <<Header>> \o rs]

\* main(), from its first line to the top of the row loop.
FilterStart ==
    /\ script \in FilterScripts
    /\ pc \in Stopped
    /\ runs < MaxRuns
    /\ \E env \in Environments :
         IF Refused(env)
         THEN /\ pc' = "refused"
              /\ idx' = 0
              /\ hist' = [hist EXCEPT !.inflight = {}, !.startLines = <<>>,
                                      !.env = env]
         ELSE /\ pc' = "loop"
              /\ idx' = 1
              /\ hist' = [hist EXCEPT !.inflight = {},
                                      !.startLines = OUTPUT_CSV.lines,
                                      !.allFailed = TRUE, !.env = env]
    /\ runs' = runs + 1
    /\ results' = <<>>
    /\ UNCHANGED <<script, input, TOPICS_REPORT, OUTPUT_CSV, processed_ids, task,
                   locals, written, attempt, sleeps, excs, ret>>

\* Every row is taken: check_simple_relevance makes its one remote call.
FilterRow ==
    /\ script \in FilterScripts
    /\ pc = "loop"
    /\ idx <= Len(input)
    /\ pc' = "call"
    /\ task' = 1
    /\ attempt' = 1
    /\ ret' = NoRet
    /\ locals' = NoLocals
    /\ hist' = [hist EXCEPT !.inflight = hist.inflight \cup {idx}]
    /\ UNCHANGED <<script, input, TOPICS_REPORT, results, OUTPUT_CSV, runs, idx,
                   processed_ids, written, sleeps, excs>>

\* client.chat.completions.create raises: there is no second attempt.
FilterApiRaises ==
    /\ script \in FilterScripts
    /\ pc = "call"
    /\ \E e \in Errors :
         LET exc == [text |-> e, at |-> attempt]
         IN  ClientEnds(Raised(exc), [state |-> "raised", exc |-> exc, calls |-> 1])
    /\ UNCHANGED <<script, input, TOPICS_REPORT, results, OUTPUT_CSV, runs, idx,
                   processed_ids, task, written, attempt, sleeps, excs, hist>>

FilterApiReturns ==
    /\ script \in FilterScripts
    /\ pc = "call"
    /\ \E c \in Contents(Tasks(script)[task]) :
         ClientEnds(Returned(c),
                    [state |-> "returned", payload |-> c, calls |-> 1])
    /\ hist' = [hist EXCEPT !.allFailed = FALSE]
    /\ UNCHANGED <<script, input, TOPICS_REPORT, results, OUTPUT_CSV, runs, idx,
                   processed_ids, task, written, attempt, sleeps, excs>>

\* results.append({...}), and on to the next row.
FilterAppend ==
    /\ script \in FilterScripts
    /\ pc = "returned"
    /\ results' = Append(results, RelevanceRecord(idx, locals))
    /\ idx' = idx + 1
    /\ pc' = "loop"
    /\ task' = 0
    /\ attempt' = 0
    /\ ret' = NoRet
    /\ locals' = NoLocals
    /\ UNCHANGED <<script, input, TOPICS_REPORT, OUTPUT_CSV, runs, processed_ids,
                   written, sleeps, excs, hist>>

\* The loop is exhausted: the table is written, then the count of relevant
\* articles is printed (results_df['Is_Relevant'] raises on a frame without
\* columns).
FilterFinish ==
    /\ script \in FilterScripts
    /\ pc = "loop"
    /\ idx > Len(input)
    /\ OUTPUT_CSV' = to_csv(results)
    /\ pc' = IF results = <<>> THEN "aborted" ELSE "done"
    /\ hist' = [hist EXCEPT !.crashRow = 0,
                            !.prevEnd = IF results = <<>> THEN "aborted" ELSE "done"]
    /\ UNCHANGED <<script, input, TOPICS_REPORT, results, runs, idx, processed_ids,
                   task, locals, written, attempt, sleeps, excs, ret>>

NextAll ==
    \/ Next
    \/ FilterStart
    \/ FilterRow
    \/ FilterApiRaises
    \/ FilterApiReturns
    \/ FilterAppend
    \/ FilterFinish

SpecAll == InitAll /\ [][NextAll]_vars

\* ===================================================================== claims
IsPrefix(a, b) == Len(a) <= Len(b) /\ SubSeq(b, 1, Len(a)) = a

Lines == OUTPUT_CSV.lines

\* Records of input row i the current run has added to the output table.
CountNew(i) ==
    Cardinality({k \in (Len(hist.startLines) + 1)..Len(Lines) :
                    Lines[k].kind = "rec" /\ Lines[k].meta = i})

\* The lines the row in flight has added to the output table.
RowLines == SubSeq(Lines, hist.rowStart + 1, Len(Lines))

HeaderCount == Cardinality({k \in 1..Len(Lines) : Lines[k].kind = "header"})

\* NewsID fields of the output table as they stood when the run started.
StartIds == {hist.startLines[k].NewsID :
                k \in {j \in 1..Len(hist.startLines) : hist.startLines[j].kind = "rec"}}

\* C1: after a kill inside a row's processing and a restart that runs to
\* completion, no row is left with only part of its records in the output.
C1_NoPartialRow == pc = "done" => hist.torn = {}

\* C2: in a run that follows a kill, no classifier call is issued for a row
\* whose records had all been appended, and the only row processed again is
\* the one that was in flight at the kill.
C2_NoRepeatAfterCrash ==
    (pc = "call" /\ hist.prevEnd = "crashed") =>
        /\ idx \notin hist.fullyWritten
        /\ idx \in hist.started => idx = hist.crashRow

\* C3: an identifier present in the output table when a run starts gets no
\* classifier call in that run, and the rows present at start stay as they were.
C3_IdempotentResume ==
    /\ pc = "call" => news_id(idx) \notin StartIds
    /\ pc \in Running \cup {"done"} => IsPrefix(hist.startLines, Lines)

\* C4: call_with_retries invokes the operation at most MAX_RETRIES times, and
\* when every attempt has failed it raises the exception of the last attempt.
C4_RetryBound ==
    /\ attempt <= MAX_RETRIES
    /\ Len(excs) <= MAX_RETRIES
    /\ ret.state = "returned" => ret.calls <= MAX_RETRIES
    /\ ret.state = "raised" =>
          /\ ret.calls = MAX_RETRIES
          /\ Len(excs) = MAX_RETRIES
          /\ ret.exc = excs[MAX_RETRIES]
    /\ Len(excs) = MAX_RETRIES => ret.state = "raised"

C4_Witness == pc = "returned" /\ ret.state = "raised" /\ ret.exc.at = 4

\* C5: a success on attempt k is preceded by exactly k-1 sleeps, the i-th of
\* RETRY_BACKOFF_SECONDS * i seconds, and the reply's content is returned.
C5_Backoff ==
    /\ \A i \in 1..Len(sleeps) : sleeps[i] = RETRY_BACKOFF_SECONDS * i
    /\ pc = "call" => Len(sleeps) = attempt - 1
    /\ ret.state = "returned" =>
          /\ Len(sleeps) = ret.calls - 1
          /\ ret.payload \in Contents(Tasks(script)[task])

C5_Witness ==
    pc = "returned" /\ ret.state = "returned" /\ ret.calls = 3 /\ sleeps = <<5, 10>>

\* The record a row gets when every one of its remote calls raised.
IsSentinelRecord(scr, r) ==
    IF scr \in CameoScripts
    THEN /\ r.blank
         /\ r.summary = [text |-> "Error: ", error |-> "APIError"]
         /\ scr = "Hurriyet1" =>
               r.document_topics = [topics |-> "Error: ", error |-> "APIError",
                                    badshape |-> FALSE]
    ELSE r.label = "Error" /\ r.description = "APIError" /\ r.summary.text = ""

\* C6 as stated: if every remote call of a run fails, the finished run has
\* added exactly one record for each input row and every row's identifier is
\* in processed_ids.
C6_OneRecordPerInputRow ==
    (pc = "done" /\ hist.allFailed) =>
        \A i \in 1..Len(input) : CountNew(i) = 1 /\ news_id(i) \in processed_ids

\* C6 amended: if every remote call of a run fails, the run is not ended by an
\* exception, and when it finishes it has added exactly one record, the error
\* sentinel record, for each row it did not skip (none for a skipped row), and
\* the identifier of each such row is in processed_ids.
C6_OneRecordPerProcessedRow ==
    /\ hist.allFailed => pc \notin {"aborted", "escaped"}
    /\ (pc = "done" /\ hist.allFailed) =>
          \A i \in 1..Len(input) :
             IF i \in hist.inflight
             THEN /\ CountNew(i) = 1
                  /\ \A k \in (Len(hist.startLines) + 1)..Len(Lines) :
                        (Lines[k].kind = "rec" /\ Lines[k].meta = i)
                            => IsSentinelRecord(script, Lines[k])
                  /\ news_id(i) \in processed_ids
             ELSE CountNew(i) = 0

C6_Witness ==
    pc = "done" /\ hist.allFailed /\ Cardinality(hist.inflight) = 2

\* A text field of record r holds the text of the exception.
HasErrorText(r) ==
    \/ r.summary.error = "APIError"
    \/ "description" \in DOMAIN r /\ r.description = "APIError"
    \/ /\ "document_topics" \in DOMAIN r
       /\ r.document_topics # Null
       /\ r.document_topics.error = "APIError"

\* C7: when a classifier call of a row has errored out after its retries,
\* every record written for the row carries the error text in a text field.
C7_ErrorMarker ==
    (pc = "mark" /\ hist.rowErr # {}) =>
        \A k \in 1..Len(RowLines) : HasErrorText(RowLines[k])

\* C8: the output table, once it exists, holds its header line exactly once,
\* as its first line.
C8_HeaderOnce ==
    IF OUTPUT_CSV.exists
    THEN HeaderCount = 1 /\ Lines[1] = Header
    ELSE Lines = <<>>

C8_Witness ==
    /\ runs = 2
    /\ pc = "done"
    /\ Len(Records(hist.startLines)) >= 1
    /\ Len(Lines) > Len(hist.startLines)
    /\ HeaderCount = 1

\* C9: a processed row with zero events adds exactly one record, with blank
\* event fields; a row with n >= 1 events adds exactly n records; every added
\* record carries the row's identifier, source, date and summary.
C9_RecordsPerRow ==
    (pc = "mark" /\ script \in CameoScripts) =>
        LET evs == EventsOf(locals)
        IN  /\ Len(RowLines) = IF evs = <<>> THEN 1 ELSE Len(evs)
            /\ \A k \in 1..Len(RowLines) :
                  /\ RowLines[k].kind = "rec"
                  /\ RowLines[k].NewsID = news_id(idx)
                  /\ RowLines[k].meta = idx
                  /\ RowLines[k].summary = locals["summary"]
                  /\ RowLines[k].blank = (evs = <<>>)
                  /\ RowLines[k].blank => RowLines[k].event_order = 0
                  /\ RowLines[k].document_topics = locals["topics"]

C9_Witness ==
    /\ pc = "mark"
    /\ script = "CAMEO3"
    /\ Len(EventsOf(locals)) = 2
    /\ \E k \in 1..Len(Lines) :
          Lines[k].kind = "rec" /\ Lines[k].blank /\ Lines[k].meta # idx

\* C10: no classifier-client function raises into the row loop: when its
\* remote call has raised, or the reply does not parse, the function returns
\* its sentinel value (holding the error text where the sentinel has a text),
\* and main does not raise on a sentinel value.
C10_NoEscape ==
    /\ pc # "escaped"
    /\ pc = "returned" =>
          LET t == Tasks(script)[task]
          IN  /\ ret.state = "raised" =>
                    locals[t] = Sentinel(script, t, ret.exc.text)
              /\ (ret.state = "returned" /\ ret.payload.kind \in {"garbage", "broken"}) =>
                    locals[t] = Sentinel(script, t, "JSONDecodeError")
              /\ (ret.state = "returned" /\ t = "sentiment"
                     /\ ret.payload.kind = "json" /\ ret.payload.score = "null") =>
                    locals[t] = Sentinel(script, t, "TypeError")
    /\ (pc = "write" /\ MainRaisesOn(script, locals)) =>
          \E t \in {"events", "topics"} :
             locals[t] # Null /\ locals[t].badshape /\ locals[t].error = ""

C10_Witness ==
    /\ script = "Hurriyet1"
    /\ pc = "returned"
    /\ task = 3
    /\ ret.state = "returned"
    /\ ret.payload.kind = "garbage"
    /\ locals["events"].error = "APIError"
    /\ locals["topics"] = [topics |-> "Error: ", error |-> "JSONDecodeError",
                           badshape |-> FALSE]

\* C11: for a row that is taken, every classifier task of the script is called
\* through the retry wrapper whatever the earlier tasks of the row did: after
\* a task returns (its value or its sentinel) the next task's first attempt
\* follows unless the process is killed, and when main shapes the row's
\* records every task has returned a value.
C11_AllTasksCalled ==
    /\ [][(script \in Scripts /\ pc = "returned" /\ task < Len(Tasks(script)))
            => \/ pc' = "crashed"
               \/ pc' = "call" /\ task' = task + 1 /\ attempt' = 1 /\ idx' = idx]_vars
    /\ []((script \in Scripts /\ pc \in {"write", "mark"}) =>
            \A k \in 1..Len(Tasks(script)) : locals[Tasks(script)[k]] # Null)

C11_Witness ==
    /\ script = "Hurriyet1"
    /\ pc = "write"
    /\ locals["events"].error = "APIError"
    /\ locals["summary"].error = ""
    /\ locals["topics"].error = ""

\* C12: every failure of a classifier call, a reply that does not parse as
\* much as a raising remote call, is converted to the fallback result only
\* after MAX_RETRIES attempts with the wrapper's sleeps between them.
C12_EveryFailureRetried ==
    (script \in Scripts /\ pc = "returned"
       /\ (ret.state = "raised" \/ ret.payload.kind \in {"garbage", "broken"})) =>
        /\ ret.calls = MAX_RETRIES
        /\ sleeps = [i \in 1..(MAX_RETRIES - 1) |-> RETRY_BACKOFF_SECONDS * i]

\* C13: a rerun of a script issues no remote call for a row whose identifier
\* the output table already holds, and leaves the table's records in place.
\* C3 states this for the scripts with a resumable sink; here it is stated
\* for the scripts without one.
C13_FilterResumes ==
    script \in FilterScripts =>
        /\ pc = "call" =>
              title_id(idx) \notin
                 {hist.startLines[k].Title_ID :
                    k \in {j \in 1..Len(hist.startLines) :
                              hist.startLines[j].kind = "rec"}}
        /\ pc \in Running \cup {"done"} => IsPrefix(hist.startLines, Lines)

\* C14: in every script, a client function whose remote call raises returns
\* its empty/error result only after the call has been attempted MAX_RETRIES
\* times, with a sleep after each attempt but the last.
C14_RetriedInEveryScript ==
    (pc = "returned" /\ ret.state = "raised") =>
        /\ ret.calls = MAX_RETRIES
        /\ Len(sleeps) = MAX_RETRIES - 1

\* C15: a start that finds the credential or the input file missing ends at
\* once: it leaves the output table and the topic report as they were (not
\* created, not modified), and the run never enters the row loop, so that no
\* classifier call is issued.
C15_RefusedStartWritesNothing ==
    /\ [][(runs' # runs /\ hist'.env # "ok")
            => /\ pc \in Stopped
               /\ pc' = "refused"
               /\ OUTPUT_CSV' = OUTPUT_CSV
               /\ TOPICS_REPORT' = TOPICS_REPORT]_vars
    /\ [](hist.env # "ok" => pc = "refused")

C15_Witness ==
    /\ pc = "refused"
    /\ hist.env = "noinput"
    /\ runs = 2
    /\ Len(Records(Lines)) >= 1

\* C16: within a run a row is pending, then skipped, or in flight and then
\* written.  The loop leaves a row only by a skip or after the row's records
\* are all appended, never goes back to a row, and takes a row in flight at
\* most once; the set the run started with gains an identifier only at the
\* step that ends a row whose records are all appended, and it is that row's.
C16_RowStateMachine ==
    [][(script \in Scripts /\ runs' = runs /\ pc \in Running /\ pc' \in Running)
        => /\ idx' \in {idx, idx + 1}
           /\ idx' = idx + 1 => (pc \in {"loop", "mark"} /\ pc' = "loop")
           /\ (pc = "loop" /\ pc' = "call") => idx \notin hist.inflight
           /\ processed_ids' # processed_ids =>
                 /\ pc = "mark"
                 /\ Len(RowLines) = Len(RowRecords(script, idx, locals))
                 /\ processed_ids' = processed_ids \cup {news_id(idx)}
                 /\ idx' = idx + 1]_vars

C16_Witness ==
    /\ runs = 1
    /\ pc = "loop"
    /\ idx = 3
    /\ hist.inflight = {1}
    /\ news_id(1) \in processed_ids
    /\ Len(Records(Lines)) = 2

C18_OneRowAtATime ==
    /\ [](pc \notin {"call", "returned", "cluster"} =>
            /\ task = 0 /\ attempt = 0
            /\ sleeps = <<>> /\ excs = <<>> /\ ret = NoRet)
    /\ []((script \in Scripts /\ pc \in {"call", "returned"}) =>
            /\ idx \in hist.inflight
            /\ \A j \in hist.inflight : j <= idx
            /\ task \in 1..Len(Tasks(script))
            /\ attempt \in 1..MAX_RETRIES)
    /\ [][(runs' = runs /\ pc' \in Running /\ idx' # idx) =>
            (pc \notin {"call", "returned"} /\ pc' \notin {"call", "returned"})]_vars

C18_Witness ==
    /\ pc = "call"
    /\ idx = 2
    /\ hist.inflight = {1, 2}
    /\ task = 2
    /\ attempt = 3
    /\ sleeps = <<5, 10>>

\* Records of input row i in the output table.
CountRows(i) ==
    Cardinality({k \in 1..Len(Lines) : Lines[k].kind = "rec" /\ Lines[k].meta = i})

\* C19 as stated: after a completed run of a single-verdict script (relevance
\* filter, societal sentiment) the output table holds exactly one row for
\* each input row.
C19_OneRowPerInput ==
    (script \in {"Sentiment", "Filter31"} /\ pc = "done") =>
        \A i \in 1..Len(input) : CountRows(i) = 1

\* C19 amended: after a completed run of the relevance filter the output
\* table is the header and exactly one row for each input row, in input
\* order; a completed run of the societal-sentiment script has added exactly
\* one row for each input row it did not skip and none for a row it skipped.
C19_OneRowPerTakenInput ==
    /\ (script = "Filter31" /\ pc = "done") =>
          /\ Len(Lines) = Len(input) + 1
          /\ Lines[1] = Header
          /\ \A i \in 1..Len(input) :
                Lines[i + 1].kind = "rec" /\ Lines[i + 1].meta = i
    /\ (script = "Sentiment" /\ pc = "done") =>
          \A i \in 1..Len(input) :
             CountNew(i) = IF i \in hist.inflight THEN 1 ELSE 0

C19_Witness ==
    /\ script = "Filter31"
    /\ pc = "done"
    /\ runs = 2
    /\ Len(input) = 2
    /\ Len(hist.startLines) = 3

\* C20: the output table is append-only: at every step, of any run, the
\* records the table held before the step are a prefix of the records it
\* holds after it.
C20_AppendOnly ==
    [][IsPrefix(Records(OUTPUT_CSV.lines), Records(OUTPUT_CSV'.lines))]_vars

\* C21: in a run where every remote call fails the run is not ended by an
\* exception; each task of each row taken returns only after MAX_RETRIES
\* attempts, every task of the row is attempted (2 tasks in CAMEO-3 and
\* Societal_sentiment, 3 in CAMEOcode_Hurriyet_1), and the run goes on to
\* take every row it does not skip.
C21_FullBudgetEveryRow ==
    (script \in Scripts /\ hist.allFailed) =>
        /\ pc \notin {"aborted", "escaped"}
        /\ pc = "returned" =>
              /\ ret.state = "raised"
              /\ ret.calls = MAX_RETRIES
              /\ Len(excs) = MAX_RETRIES
              /\ hist.rowErr = {Tasks(script)[k] : k \in 1..task}
        /\ pc \in {"write", "mark"} =>
              /\ hist.rowErr = {Tasks(script)[k] : k \in 1..Len(Tasks(script))}
              /\ Cardinality(hist.rowErr) = IF script = "Hurriyet1" THEN 3 ELSE 2
        /\ pc = "done" =>
              \A i \in 1..Len(input) :
                 i \in hist.inflight \/ content_empty(i)
                    \/ news_id(i) \in load_processed_ids([lines |-> hist.startLines])
                    \/ \E j \in 1..(i - 1) : news_id(j) = news_id(i)

C21_Witness ==
    /\ script = "CAMEO3"
    /\ hist.allFailed
    /\ pc = "mark"
    /\ idx = 2
    /\ hist.inflight = {1, 2}
    /\ hist.rowErr = {"events", "summary"}

\* ------------------------------------- Filter_Hurriyet_first / _second
\* A text is the sequence of its code points: an ASCII character stands for
\* itself, any other is written U+hhhh (U+0130 is the capital I with a dot
\* above, U+0307 the combining dot above, U+00FC the u with a diaeresis).
TwoStageScripts == {"HurriyetFilter"}

\* The words the Content cells are made of: Israel, U+0130srail, Ankara,
\* U+0130stanbul, minister, rain.
Words ==
    {<<"I", "s", "r", "a", "e", "l">>,
     <<"U+0130", "s", "r", "a", "i", "l">>,
     <<"A", "n", "k", "a", "r", "a">>,
     <<"U+0130", "s", "t", "a", "n", "b", "u", "l">>,
     <<"m", "i", "n", "i", "s", "t", "e", "r">>,
     <<"r", "a", "i", "n">>}

\* A Content cell: up to MaxWords words with a space between them (no word
\* at all is the empty cell), or a cell holding one space.
Cells ==
    {<<>>, <<" ">>} \cup Words
      \cup (IF MaxWords >= 2 THEN {v \o <<" ">> \o w : v \in Words, w \in Words} ELSE {})
      \cup (IF MaxWords >= 3
            THEN {u \o <<" ">> \o v \o <<" ">> \o w : u \in Words, v \in Words, w \in Words}
            ELSE {})

FilterTables == UNION {[1..n -> Cells] : n \in 0..MaxFilterRows}

\* str.strip()
RECURSIVE lstrip(_)
lstrip(t) == IF t # <<>> /\ Head(t) = " " THEN lstrip(Tail(t)) ELSE t
RECURSIVE rstrip(_)
rstrip(t) ==
    IF t # <<>> /\ t[Len(t)] = " " THEN rstrip(SubSeq(t, 1, Len(t) - 1)) ELSE t
str_strip(t) == rstrip(lstrip(t))

\* main: content = str(row.get(CONTENT_COLUMN, "")).strip(); read_csv reads
\* an empty cell as NaN, whose str() is nan.
content(i) ==
    IF input[i] = <<>>
    THEN <<"n", "a", "n">>
    ELSE str_strip(input[i])

\* str.lower(), one code point at a time: U+0130 lowers to i followed by
\* U+0307, every other capital to its one small letter.
UpperAscii == <<"A", "B", "C", "D", "E", "F", "G", "H", "I", "J", "K", "L", "M",
                "N", "O", "P", "Q", "R", "S", "T", "U", "V", "W", "X", "Y", "Z">>
LowerAscii == <<"a", "b", "c", "d", "e", "f", "g", "h", "i", "j", "k", "l", "m",
                "n", "o", "p", "q", "r", "s", "t", "u", "v", "w", "x", "y", "z">>
lower_char(c) ==
    IF c = "U+0130" THEN <<"i", "U+0307">>
    ELSE IF \E k \in 1..26 : UpperAscii[k] = c
         THEN <<LowerAscii[CHOOSE k \in 1..26 : UpperAscii[k] = c]>>
         ELSE <<c>>
RECURSIVE lower(_)
lower(t) == IF t = <<>> THEN <<>> ELSE lower_char(Head(t)) \o lower(Tail(t))

\* `k in t` on two str values
contains(t, k) ==
    \E p \in 1..(Len(t) - Len(k) + 1) : SubSeq(t, p, p + Len(k) - 1) = k

\* cheap_keyword_filter's keyword lists
israel_en ==
    {<<"i", "s", "r", "a", "e", "l">>,
      <<"i", "s", "r", "a", "e", "l", "i">>,
      <<"j", "e", "r", "u", "s", "a", "l", "e", "m">>,
      <<"g", "a", "z", "a">>,
      <<"i", "d", "f">>,
      <<"n", "e", "t", "a", "n", "y", "a", "h", "u">>,
      <<"h", "e", "r", "z", "o", "g">>,
      <<"s", "h", "a", "r", "o", "n">>}

turkey_en ==
    {<<"t", "u", "r", "k", "e", "y">>,
      <<"t", "u", "r", "k", "i", "s", "h">>,
      <<"t", "U+00FC", "r", "k", "i", "y", "e">>,
      <<"a", "n", "k", "a", "r", "a">>,
      <<"i", "s", "t", "a", "n", "b", "u", "l">>,
      <<"e", "r", "d", "o", "g", "a", "n">>,
      <<"e", "r", "d", "o", "U+011F", "a", "n">>,
      <<"a", "k", "p">>}

israel_tr ==
    {<<"i", "s", "r", "a", "i", "l">>,
      <<"i", "s", "r", "a", "i", "l", "l", "i">>,
      <<"k", "u", "d", "U+00FC", "s">>,
      <<"g", "a", "z", "z", "e">>}

turkey_tr ==
    {<<"t", "U+00FC", "r", "k", "i", "y", "e">>,
      <<"t", "U+00FC", "r", "k">>,
      <<"a", "n", "k", "a", "r", "a">>,
      <<"i", "s", "t", "a", "n", "b", "u", "l">>,
      <<"e", "r", "d", "o", "U+011F", "a", "n">>}

israel_he ==
    {<<"U+05D9", "U+05E9", "U+05E8", "U+05D0", "U+05DC">>,
      <<"U+05D9", "U+05E9", "U+05E8", "U+05D0", "U+05DC", "U+05D9">>,
      <<"U+05E2", "U+05D6", "U+05D4">>,
      <<"U+05D9", "U+05E8", "U+05D5", "U+05E9", "U+05DC", "U+05D9", "U+05DD">>,
      <<"U+05E6", "U+05D4", "U+0022", "U+05DC">>}

turkey_he ==
    {<<"U+05D8", "U+05D5", "U+05E8", "U+05E7", "U+05D9", "U+05D4">>,
      <<"U+05D8", "U+05D5", "U+05E8", "U+05E7", "U+05D9">>,
      <<"U+05D0", "U+05D9", "U+05E1", "U+05D8", "U+05E0", "U+05D1", "U+05D5", "U+05DC">>,
      <<"U+05D0", "U+05E8", "U+05D3", "U+05D5", "U+05D0", "U+05DF">>}

political_terms ==
    {<<"p", "r", "i", "m", "e", " ", "m", "i", "n", "i", "s", "t", "e", "r">>,
      <<"p", "r", "e", "s", "i", "d", "e", "n", "t">>,
      <<"f", "o", "r", "e", "i", "g", "n", " ", "m", "i", "n", "i", "s", "t", "e", "r">>,
      <<"d", "i", "p", "l", "o", "m", "a", "t">>,
      <<"c", "a", "b", "i", "n", "e", "t">>,
      <<"g", "o", "v", "e", "r", "n", "m", "e", "n", "t">>,
      <<"m", "i", "n", "i", "s", "t", "e", "r">>,
      <<"b", "a", "U+015F", "b", "a", "k", "a", "n">>,
      <<"c", "u", "m", "h", "u", "r", "b", "a", "U+015F", "k", "a", "n", "U+0131">>,
      <<"U+05E8", "U+05D0", "U+05E9", " ", "U+05D4", "U+05DE", "U+05DE", "U+05E9", "U+05DC", "U+05D4">>,
      <<"U+05E9", "U+05E8", " ", "U+05D4", "U+05D7", "U+05D5", "U+05E5">>,
      <<"U+05DE", "U+05E9", "U+05E8", "U+05D3", " ", "U+05D4", "U+05D7", "U+05D5", "U+05E5">>}

has_israel(t) == \E k \in israel_en \cup israel_tr \cup israel_he : contains(t, k)
has_turkey(t) == \E k \in turkey_en \cup turkey_tr \cup turkey_he : contains(t, k)
has_political(t) == \E k \in political_terms : contains(t, k)

cheap_keyword_filter(text) ==
    IF text = <<>> THEN FALSE
    ELSE LET t == lower(text)
         IN  IF has_israel(t) /\ has_turkey(t) THEN TRUE
             ELSE IF has_political(t) /\ (has_israel(t) \/ has_turkey(t)) THEN TRUE
             ELSE FALSE

\* llm_relevance_filter: what it returns for a reply.  result.get("relevant",
\* False) hands back the JSON value as it is; a reply that is not JSON, or
\* JSON that is not an object, raises inside the try and gives False.
LlmReplies == {"true", "false", "nokey", "text", "garbage", "array"}
llm_relevance_filter(reply) ==
    CASE reply = "true" -> "True"
      [] reply = "text" -> "'false'"
      [] OTHER -> "False"
Truthy(v) == v # "False"

LlmIssued_always(keyword_pass) == TRUE

\* main: `if keyword_pass: llm_pass = llm_relevance_filter(content)`
LlmIssued(keyword_pass) == keyword_pass

YesNo(b) == IF b THEN "yes" ELSE "no"

NoFile == [exists |-> FALSE, lines |-> <<>>]
TwoStageLocals ==
    [keyword_pass |-> FALSE, llm_pass |-> "False",
     keyword_filtered_rows |-> <<>>, final_filtered_rows |-> <<>>]
TwoStageHist == [called |-> {}, env |-> "ok"]

InitTwoStage ==
    /\ script \in TwoStageScripts
    /\ input \in FilterTables
    /\ OUTPUT_CSV = [DEBUG_OUTPUT |-> NoFile, KEYWORD_FILTER_OUTPUT |-> NoFile,
                     FINAL_FILTER_OUTPUT |-> NoFile]
    /\ TOPICS_REPORT = "absent"
    /\ results = <<>>
    /\ pc = "idle"
    /\ runs = 0
    /\ idx = 0
    /\ processed_ids = {}
    /\ task = 0
    /\ locals = TwoStageLocals
    /\ written = 0
    /\ attempt = 0
    /\ sleeps = <<>>
    /\ excs = <<>>
    /\ ret = NoRet
    /\ hist = TwoStageHist

\* The module's credential check, then main() down to the top of the loop.
TwoStageStart ==
    /\ script \in TwoStageScripts
    /\ pc \in Stopped
    /\ runs < MaxRuns
    /\ \E env \in Environments :
         /\ pc' = IF Refused(env) THEN "refused" ELSE "loop"
         /\ idx' = IF Refused(env) THEN 0 ELSE 1
         /\ hist' = [called |-> {}, env |-> env]
    /\ runs' = runs + 1
    /\ results' = <<>>
    /\ locals' = TwoStageLocals
    /\ UNCHANGED <<script, input, OUTPUT_CSV, TOPICS_REPORT, processed_ids, task,
                   written, attempt, sleeps, excs, ret>>

\* STEP 1 for the row at idx; STEP 2 begins only if LlmIssued.
KeywordStep ==
    /\ script \in TwoStageScripts
    /\ pc = "loop"
    /\ idx <= Len(input)
    /\ LET keyword_pass == cheap_keyword_filter(content(idx))
       IN  /\ locals' = [locals EXCEPT !.keyword_pass = keyword_pass,
                                       !.llm_pass = "False"]
           /\ pc' = IF LlmIssued(keyword_pass) THEN "call" ELSE "record"
           /\ hist' = [hist EXCEPT
                         !.called = IF LlmIssued(keyword_pass)
                                    THEN hist.called \cup {idx} ELSE hist.called]
    /\ UNCHANGED <<script, input, OUTPUT_CSV, TOPICS_REPORT, results, runs, idx,
                   processed_ids, task, written, attempt, sleeps, excs, ret>>

\* client.chat.completions.create raises: the except clause returns False.
LlmRaises ==
    /\ script \in TwoStageScripts
    /\ pc = "call"
    /\ \E e \in Errors : locals' = [locals EXCEPT !.llm_pass = "False"]
    /\ pc' = "record"
    /\ UNCHANGED <<script, input, OUTPUT_CSV, TOPICS_REPORT, results, runs, idx,
                   processed_ids, task, written, attempt, sleeps, excs, ret, hist>>

LlmReturns ==
    /\ script \in TwoStageScripts
    /\ pc = "call"
    /\ \E reply \in LlmReplies :
         locals' = [locals EXCEPT !.llm_pass = llm_relevance_filter(reply)]
    /\ pc' = "record"
    /\ UNCHANGED <<script, input, OUTPUT_CSV, TOPICS_REPORT, results, runs, idx,
                   processed_ids, task, written, attempt, sleeps, excs, ret, hist>>

DebugRecord(i, loc) ==
    [index |-> i, row |-> input[i],
     keyword_pass |-> YesNo(loc.keyword_pass),
     llm_pass |-> YesNo(Truthy(loc.llm_pass))]

\* debug_records.append, the two `Save matches` appends, and the next row.
RecordRow ==
    /\ script \in TwoStageScripts
    /\ pc = "record"
    /\ results' = Append(results, DebugRecord(idx, locals))
    /\ LET row == [index |-> idx, row |-> input[idx]]
           kept == IF locals.keyword_pass
                   THEN Append(locals.keyword_filtered_rows, row)
                   ELSE locals.keyword_filtered_rows
           final == IF locals.keyword_pass /\ Truthy(locals.llm_pass)
                    THEN Append(locals.final_filtered_rows, row)
                    ELSE locals.final_filtered_rows
       IN  locals' = [locals EXCEPT !.keyword_filtered_rows = kept,
                                    !.final_filtered_rows = final]
    /\ idx' = idx + 1
    /\ pc' = "loop"
    /\ UNCHANGED <<script, input, OUTPUT_CSV, TOPICS_REPORT, runs, processed_ids,
                   task, written, attempt, sleeps, excs, ret, hist>>

\* DataFrame(rows).to_csv(path): the file is replaced.
frame_to_csv(rows) == [exists |-> TRUE, lines |-> rows]

\* After the loop: the debug table always, the other two only when their
\* list is not empty.
SaveOutputs ==
    /\ script \in TwoStageScripts
    /\ pc = "loop"
    /\ idx > Len(input)
    /\ OUTPUT_CSV' =
         [DEBUG_OUTPUT |-> frame_to_csv(results),
          KEYWORD_FILTER_OUTPUT |->
             IF locals.keyword_filtered_rows # <<>>
             THEN frame_to_csv(locals.keyword_filtered_rows)
             ELSE OUTPUT_CSV.KEYWORD_FILTER_OUTPUT,
          FINAL_FILTER_OUTPUT |->
             IF locals.final_filtered_rows # <<>>
             THEN frame_to_csv(locals.final_filtered_rows)
             ELSE OUTPUT_CSV.FINAL_FILTER_OUTPUT]
    /\ pc' = "done"
    /\ UNCHANGED <<script, input, TOPICS_REPORT, results, runs, idx, processed_ids,
                   task, locals, written, attempt, sleeps, excs, ret, hist>>

\* The process is killed inside the loop.
TwoStageCrash ==
    /\ script \in TwoStageScripts
    /\ pc \in {"loop", "call", "record"}
    /\ pc' = "crashed"
    /\ UNCHANGED <<script, input, OUTPUT_CSV, TOPICS_REPORT, results, runs, idx,
                   processed_ids, task, locals, written, attempt, sleeps, excs, ret,
                   hist>>

NextTwoStage ==
    \/ TwoStageStart
    \/ KeywordStep
    \/ LlmRaises
    \/ LlmReturns
    \/ RecordRow
    \/ SaveOutputs
    \/ TwoStageCrash

SpecTwoStage == InitTwoStage /\ [][NextTwoStage]_vars

\* The rows of a list or file, as a set.
RowSet(rows) == {rows[k] : k \in 1..Len(rows)}
InputRowSet == {[index |-> i, row |-> input[i]] : i \in 1..Len(input)}

\* C22: in the two-stage filter the relevance call is issued for a row only
\* if cheap_keyword_filter passed for it; the LLM-confirmed rows are among the
\* keyword-passed rows, which are among the input rows, in memory and in the
\* files; and a debug table holds one record per input row, in order, with
\* llm_pass = "yes" only where keyword_pass = "yes".
C22_TwoStageSubsets ==
    script \in TwoStageScripts =>
        /\ \A i \in hist.called : cheap_keyword_filter(content(i))
        /\ pc = "call" => locals.keyword_pass
        /\ RowSet(locals.final_filtered_rows) \subseteq RowSet(locals.keyword_filtered_rows)
        /\ RowSet(locals.keyword_filtered_rows) \subseteq InputRowSet
        /\ RowSet(OUTPUT_CSV.FINAL_FILTER_OUTPUT.lines)
              \subseteq RowSet(OUTPUT_CSV.KEYWORD_FILTER_OUTPUT.lines)
        /\ RowSet(OUTPUT_CSV.KEYWORD_FILTER_OUTPUT.lines) \subseteq InputRowSet
        /\ \A k \in 1..Len(results) :
              /\ results[k].index = k
              /\ results[k].llm_pass = "yes" => results[k].keyword_pass = "yes"
        /\ OUTPUT_CSV.DEBUG_OUTPUT.exists =>
              LET d == OUTPUT_CSV.DEBUG_OUTPUT.lines
              IN  /\ Len(d) = Len(input)
                  /\ \A k \in 1..Len(d) :
                        /\ d[k].index = k
                        /\ d[k].row = input[k]
                        /\ d[k].llm_pass = "yes" => d[k].keyword_pass = "yes"

C22_Witness ==
    /\ script \in TwoStageScripts
    /\ pc = "done"
    /\ Len(input) = 2
    /\ hist.called = {1}
    /\ OUTPUT_CSV.DEBUG_OUTPUT.lines[1].llm_pass = "yes"
    /\ OUTPUT_CSV.DEBUG_OUTPUT.lines[2].keyword_pass = "no"
    /\ Len(OUTPUT_CSV.FINAL_FILTER_OUTPUT.lines) = 1

\* C23: cheap_keyword_filter is True exactly when the text mentions an Israel
\* keyword and a Turkey keyword, or a political term and at least one of the
\* two sides (so False for an empty text, for one side without a political
\* term, and for political terms alone).  A text mentions a keyword when the
\* keyword occurs in it with letter case ignored: every capital, the dotted
\* capital I (U+0130) included, counts as its small letter.
C23_KeywordRule ==
    (script \in TwoStageScripts /\ pc = "record") =>
        LET small(c) == IF c = "U+0130" THEN "i" ELSE lower_char(c)[1]
            text == [k \in 1..Len(content(idx)) |-> small(content(idx)[k])]
        IN  locals.keyword_pass
              <=> \/ has_israel(text) /\ has_turkey(text)
                  \/ has_political(text) /\ (has_israel(text) \/ has_turkey(text))

\* C24 (as stated): in CAMEOcode_Hurriyet_1 at most one clustering request is
\* sent per run, and only after every input row has been processed or
\* skipped; a run that ends with a topic that is no error text in the output
\* table has sent it, whether or not it processed a row; a run that ends
\* without such a topic has sent none and its report is "No topics available.".
C24_ClusterCallOnce ==
    script = "Hurriyet1" =>
        /\ hist.clusterSent <= 1
        /\ hist.clusterSent > 0 => pc \in {"cluster", "done", "crashed"}
        /\ pc = "cluster" =>
              /\ idx > Len(input)
              /\ \A i \in 1..Len(input) :
                    content_empty(i) \/ news_id(i) \in processed_ids
        /\ pc = "done" =>
              IF flat(OUTPUT_CSV) # {}
              THEN hist.clusterSent >= 1
              ELSE hist.clusterSent = 0 /\ TOPICS_REPORT = "No topics available."

\* C24 (amended): the clustering call is begun at most once per run, and its
\* retry wrapper sends between one and MAX_RETRIES requests, each but the
\* first after a failed one; the rest as stated.
C24_ClusterCallOncePerRunWithRetries ==
    script = "Hurriyet1" =>
        /\ hist.clusterCalls <= 1
        /\ hist.clusterSent <= MAX_RETRIES
        /\ hist.clusterSent > 0 => hist.clusterCalls = 1
        /\ pc = "cluster" =>
              /\ hist.clusterSent = attempt
              /\ Len(excs) = attempt - 1
        /\ hist.clusterSent > 0 => pc \in {"cluster", "done", "crashed"}
        /\ pc = "cluster" =>
              /\ idx > Len(input)
              /\ \A i \in 1..Len(input) :
                    content_empty(i) \/ news_id(i) \in processed_ids
        /\ pc = "done" =>
              IF flat(OUTPUT_CSV) # {}
              THEN hist.clusterCalls = 1 /\ TOPICS_REPORT \in {"clusters", "Error: "}
              ELSE hist.clusterSent = 0 /\ TOPICS_REPORT = "No topics available."

C24_Witness ==
    /\ script = "Hurriyet1"
    /\ runs = 2
    /\ pc = "done"
    /\ hist.inflight = {}
    /\ Len(input) = 1
    /\ hist.clusterCalls = 1
    /\ hist.clusterSent = 2
    /\ TOPICS_REPORT = "clusters"

\* C25: when every attempt of a call fails, call_with_retries has made exactly
\* MAX_RETRIES calls and MAX_RETRIES - 1 sleeps when it raises: the sleeps are
\* 5, 10 and 15 seconds, the exception raised is that of the 4th call, and no
\* sleep follows the 4th failure.  The same for the clustering call, whose
\* failure ends in the error report.
C25_ExhaustedBudget ==
    /\ []((script \in Scripts /\ pc = "returned" /\ ret.state = "raised") =>
            /\ ret.calls = MAX_RETRIES
            /\ attempt = MAX_RETRIES
            /\ Len(excs) = MAX_RETRIES
            /\ Len(sleeps) = MAX_RETRIES - 1
            /\ sleeps = <<5, 10, 15>>
            /\ ret.exc = [text |-> excs[4].text, at |-> 4])
    /\ [][(script \in Scripts /\ pc = "call" /\ pc' \in {"returned", "escaped"}
              /\ ret'.state = "raised") =>
            (attempt = MAX_RETRIES /\ sleeps' = sleeps /\ Len(excs) = MAX_RETRIES - 1)]_vars
    /\ [][(pc = "cluster" /\ pc' = "done" /\ TOPICS_REPORT' = "Error: ") =>
            (attempt = MAX_RETRIES /\ sleeps = <<5, 10, 15>>
               /\ Len(excs) = MAX_RETRIES - 1)]_vars

C25_Witness ==
    /\ script = "Sentiment"
    /\ pc = "returned"
    /\ task = 2
    /\ ret.state = "raised"
    /\ ret.calls = 4
    /\ sleeps = <<5, 10, 15>>

\* C26: at every row boundary of the resumable loop (the loop is between two
\* rows, or has just ended) processed_ids is the set of identifiers the
\* output table holds in its NewsID column; the two differ only while a row
\* is in flight.
C26_ProcessedIdsMatchTable ==
    (script \in Scripts /\ pc \in {"loop", "done", "cluster"}) =>
        processed_ids = {Lines[k].NewsID : k \in {j \in 1..Len(Lines) : IsRecord(Lines[j])}}

\* C27: while a row's client functions are being called (attempts, sleeps and
\* returns included) the output table holds no record of that row added by
\* this run and is as long as when the row was taken; no step taken in that
\* phase, a kill included, changes the file; and inside a run the file
\* changes only once all the row's calls have returned.
C27_NoAppendBeforeTasksReturn ==
    /\ []((script \in Scripts /\ pc \in {"call", "returned"}) =>
            /\ written = 0
            /\ CountNew(idx) = 0
            /\ Len(Lines) = hist.rowStart)
    /\ [][(script \in Scripts /\ pc \in {"call", "returned"}) =>
            OUTPUT_CSV' = OUTPUT_CSV]_vars
    /\ [][(script \in Scripts /\ pc \in {"call", "returned"} /\ pc' = "crashed") =>
            (OUTPUT_CSV' = OUTPUT_CSV /\ Len(OUTPUT_CSV'.lines) = hist.rowStart)]_vars
    /\ [][(script \in Scripts /\ pc \notin Stopped /\ OUTPUT_CSV' # OUTPUT_CSV) =>
            (pc = "write" /\ task = 0 /\ ret = NoRet)]_vars

C27_Witness ==
    /\ script = "Hurriyet1"
    /\ pc = "call"
    /\ task = 3
    /\ attempt = 2
    /\ runs = 2
    /\ Len(Lines) = hist.rowStart
    /\ hist.rowStart = 1

\* C28: a row whose content is empty after strip() is never taken in flight,
\* in any run: no client function is called for it, the output table holds no
\* record of it, its records are never all (or partly) written, and the step
\* that leaves it is a skip, which changes neither processed_ids nor the file.
C28_EmptyRowNeverProcessed ==
    /\ [](script \in Scripts =>
            \A i \in 1..Len(input) :
               content_empty(i) =>
                  /\ i \notin hist.inflight \cup hist.started
                  /\ i \notin hist.fullyWritten \cup hist.torn
                  /\ CountRows(i) = 0
                  /\ pc \in InFlight => idx # i)
    /\ [][(script \in Scripts /\ pc = "loop" /\ idx <= Len(input)
              /\ pc' \in Running /\ content_empty(idx)) =>
            /\ pc' = "loop"
            /\ idx' = idx + 1
            /\ processed_ids' = processed_ids
            /\ OUTPUT_CSV' = OUTPUT_CSV]_vars

C28_Witness ==
    /\ script \in Scripts
    /\ runs = 2
    /\ pc = "done"
    /\ Len(input) = 2
    /\ content_empty(1)
    /\ ~content_empty(2)
    /\ hist.started = {2}
    /\ CountRows(2) >= 1
    /\ CountRows(1) = 0

\* C29: the records of a row with several events are appended in the order
\* the reply lists the events, not sorted by event_order: the k-th record the
\* row adds is the k-th event of the reply, whatever the event_order values
\* (descending, or all equal).
C29_ReplyOrderKept ==
    (script \in CameoScripts /\ pc \in {"write", "mark"}
       /\ ~MainRaisesOn(script, locals) /\ EventsOf(locals) # <<>>) =>
        LET evs == EventsOf(locals)
        IN  /\ Len(RowLines) = written
            /\ pc = "mark" => written = Len(evs)
            /\ \A k \in 1..Len(RowLines) :
                  /\ RowLines[k].cameo_code = evs[k].cameo_code
                  /\ RowLines[k].event_order = evs[k].event_order
                  /\ RowLines[k].cameo_code = k

C29_Witness ==
    /\ script = "CAMEO3"
    /\ pc = "mark"
    /\ Len(RowLines) = 2
    /\ RowLines[1].event_order = 2
    /\ RowLines[2].event_order = 1
    /\ RowLines[1].cameo_code = 1

\* ------------------------------------------------------ runs left to run
\* A run that nobody kills: the interpreter takes main's next step, and every
\* request to the service comes back, with a reply or with an exception.
RunStep ==
    \/ RowSkipped
    \/ RowBegins
    \/ ApiRaisesRetry
    \/ ApiRaisesFinal
    \/ ApiReturns
    \/ NextTask
    \/ TasksDone
    \/ AppendNext
    \/ MarkDone
    \/ Finish
    \/ ClusterBegins
    \/ ClusterRaisesRetry
    \/ ClusterRaisesFinal
    \/ ClusterReturns
    \/ MainRaises

NextLive == MainStart \/ RunStep

SpecLive == Init /\ [][NextLive]_vars /\ WF_vars(RunStep)

\* C30: whatever the input table and the outcomes of the remote calls, a run
\* of the resumable loop that is not killed comes to its end: it reaches the
\* completion message.
C30_RunCompletes == (pc \in Running) ~> (pc = "done")

====
